---------------------------- MODULE Spec2Model ----------------------------
(***************************************************************************)
(* Model of the omnipdf-extractor core: paragraph grouping                 *)
(* (extract_layout.py), font ranking (extract_layout.py) and hierarchy     *)
(* labeling (labeler.py).                                                  *)
(*                                                                         *)
(* Units.  Coordinates are integers in tenths of a point (15.0 -> 150),    *)
(* font sizes are integers in thousandths of a point (10.2 -> 10200), and  *)
(* ratios are integers in hundredths.  A text is a sequence of             *)
(* one-character strings, so that strip(), isdigit(), isalpha() and        *)
(* " ".join() are computed, not assumed.                                   *)
(***************************************************************************)
EXTENDS Integers, Sequences, FiniteSets, TLC

VARIABLES pc,              \* position of the driver of the operation under study
          lines,           \* the caller's list handed to group_into_paragraphs_strict
          paragraphs,      \* the list of paragraph records produced so far
          para_lines,      \* history: every current_para list flushed, in flush order
          doc,             \* the pages of the document, each a list of line records
          page_num,        \* loop variable of _extract_paragraphs_from_document
          all_font_sizes,  \* font sizes collected by _extract_paragraphs_from_document
          font_sizes,      \* the argument of build_relative_font_ranks
          font_size_ranks, \* the mapping returned by build_relative_font_ranks
          lines0,          \* history: the caller's list as it was when the call began
          json_data,       \* the caller's list handed to label_document_hierarchy
          json0,           \* history: json_data as it was when the call began
          labeled_data,    \* the list returned by label_document_hierarchy
          schema_data,     \* the value returned by transform_to_schema
          labeled0,        \* history: the list handed to _ensure_logical_hierarchy
          json_file,       \* content of the JSON file process_single_file rewrites
          processed_count, \* DocumentLabeler.processed_count
          failed_count,    \* DocumentLabeler.failed_count
          page_lines,      \* per page: the line list its grouping task works on
          page_paragraphs  \* per page: the paragraphs its grouping task returned

vars == <<pc, lines, paragraphs, para_lines, doc, page_num, all_font_sizes,
          font_sizes, font_size_ranks, lines0, json_data, json0, labeled_data,
          schema_data, labeled0, json_file, processed_count, failed_count,
          page_lines, page_paragraphs>>

-----------------------------------------------------------------------------
(* Generic helpers standing for Python built-ins.                          *)

Max(a, b) == IF a >= b THEN a ELSE b

Min(a, b) == IF a <= b THEN a ELSE b

\* round(): nearest integer quotient n/d, ties to the even quotient (n >= 0, d > 0).
RoundDiv(n, d) ==
    LET q == n \div d
        r == n % d
    IN  IF 2 * r < d THEN q
        ELSE IF 2 * r > d THEN q + 1
        ELSE IF q % 2 = 0 THEN q ELSE q + 1

RECURSIVE SumSeq(_)
SumSeq(s) == IF s = <<>> THEN 0 ELSE Head(s) + SumSeq(Tail(s))

RECURSIVE FlattenSeq(_)
FlattenSeq(ss) == IF ss = <<>> THEN <<>> ELSE Head(ss) \o FlattenSeq(Tail(ss))

SetMin(S) == CHOOSE x \in S : \A y \in S : x <= y

SetMax(S) == CHOOSE x \in S : \A y \in S : x >= y

\* The sequences over S of length 0..n.
SeqUpTo(S, n) == UNION {[1..k -> S] : k \in 0..n}

-----------------------------------------------------------------------------
(* Texts: str.strip, str.isdigit, str.isalpha, str.join.                   *)

Digits == {"0", "1", "2", "3", "4", "5", "6", "7", "8", "9"}

IsSpace(c) == c = " "

RECURSIVE LStrip(_)
LStrip(t) == IF t # <<>> /\ IsSpace(Head(t)) THEN LStrip(Tail(t)) ELSE t

RECURSIVE RStrip(_)
RStrip(t) ==
    IF t # <<>> /\ IsSpace(t[Len(t)]) THEN RStrip(SubSeq(t, 1, Len(t) - 1)) ELSE t

Strip(t) == RStrip(LStrip(t))

\* str.isdigit(): non-empty and every character a digit.
IsDigit(t) == t # <<>> /\ \A i \in 1..Len(t) : t[i] \in Digits

\* any(c.isalpha() for c in text)
HasAlpha(t) == \E i \in 1..Len(t) : ~IsSpace(t[i]) /\ t[i] \notin Digits

\* " ".join(ts)
RECURSIVE JoinSpace(_)
JoinSpace(ts) ==
    IF ts = <<>> THEN <<>>
    ELSE IF Len(ts) = 1 THEN ts[1]
    ELSE ts[1] \o <<" ">> \o JoinSpace(Tail(ts))

-----------------------------------------------------------------------------
(* extract_layout.py: paragraph grouping.                                  *)

\* PDFLayoutExtractor.vertical_spacing_threshold, default 15.0, in tenths.
vertical_spacing_threshold == 150

\* round(x, 2) of a size in thousandths (the result is in thousandths too).
Round2(fs) == RoundDiv(fs, 10) * 10

\* normalize_font_size: round(font_size * 2) / 2.
normalize_font_size(fs) == RoundDiv(fs * 2, 1000) * 500

\* The key of lines.sort in group_into_paragraphs_strict: (page_num, y0).
SortKeyLeq(a, b) ==
    \/ a.page_num < b.page_num
    \/ a.page_num = b.page_num /\ a.y0 <= b.y0

\* Stable insertion of x into the sorted list s (after every element with key <= x's).
RECURSIVE InsertSorted(_, _)
InsertSorted(s, x) ==
    IF s = <<>> THEN <<x>>
    ELSE IF SortKeyLeq(Head(s), x) THEN <<Head(s)>> \o InsertSorted(Tail(s), x)
    ELSE <<x>> \o s

RECURSIVE SortLinesFrom(_, _)
SortLinesFrom(ls, acc) ==
    IF ls = <<>> THEN acc ELSE SortLinesFrom(Tail(ls), InsertSorted(acc, Head(ls)))

\* A plausible slip: the list is used in arrival order.
SortLinesUnsorted(ls) == ls

\* lines.sort(key=lambda x: (x.get('page_num', 0), x.get('y0', 0))), a stable sort.
SortLines(ls) == SortLinesFrom(ls, <<>>)

\* spacing = max(0, curr.get('y0', 0) - prev.get('y1', 0))
Spacing(prev, curr) == Max(0, curr.y0 - prev.y1)

\* A plausible slip: the threshold itself still merges.
close_vertically_inclusive(spacing) == spacing <= vertical_spacing_threshold

\* close_vertically = spacing < extractor.vertical_spacing_threshold
close_vertically(spacing) == spacing < vertical_spacing_threshold

\* A plausible slip: the merge conditions without same_font_weight.
ShouldMergeAnyWeight(prev, curr) ==
    LET same_page        == curr.page_num = prev.page_num
        same_font_class  == curr.normalized_font_size = prev.normalized_font_size
        same_font_name   == (curr.font_names \cap prev.font_names) # {}
    IN  /\ same_page
        /\ close_vertically(Spacing(prev, curr))
        /\ same_font_class
        /\ same_font_name

\* The STRICT MATCHING CONDITIONS of group_into_paragraphs_strict.
ShouldMerge(prev, curr) ==
    LET same_page        == curr.page_num = prev.page_num
        same_font_class  == curr.normalized_font_size = prev.normalized_font_size
        same_font_weight == curr.is_bold = prev.is_bold
        same_font_name   == (curr.font_names \cap prev.font_names) # {}
    IN  /\ same_page
        /\ close_vertically(Spacing(prev, curr))
        /\ same_font_class
        /\ same_font_weight
        /\ same_font_name

\* The loop of group_into_paragraphs_strict over the sorted list ls from index
\* i on: current_para is the open paragraph, done the lists flushed so far.
\* Each curr gets its 'line_spacing' written before it is appended anywhere.
\* The result is every flushed list, the final flush included.
RECURSIVE GroupLoop(_, _, _, _)
GroupLoop(ls, i, current_para, done) ==
    IF i > Len(ls) THEN Append(done, current_para)
    ELSE LET prev == current_para[Len(current_para)]
             curr == [ls[i] EXCEPT !.line_spacing = Spacing(prev, ls[i])]
         IN  IF ShouldMerge(prev, curr)
             THEN GroupLoop(ls, i + 1, Append(current_para, curr), done)
             ELSE GroupLoop(ls, i + 1, <<curr>>, Append(done, current_para))

\* A plausible slip: the last open paragraph is never flushed.
FlushedRunsNoFinal(ls) ==
    IF ls = <<>> THEN <<>>
    ELSE LET all == GroupLoop(SortLines(ls), 2, <<SortLines(ls)[1]>>, <<>>)
         IN  SubSeq(all, 1, Len(all) - 1)

\* The lists of lines flushed by group_into_paragraphs_strict(ls), in order.
FlushedRuns(ls) ==
    IF ls = <<>> THEN <<>>
    ELSE GroupLoop(SortLines(ls), 2, <<SortLines(ls)[1]>>, <<>>)

\* The texts kept by aggregate_paragraph: [l.get('text','') for l in lines if l.get('text')]
RECURSIVE KeptTexts(_)
KeptTexts(ls) ==
    IF ls = <<>> THEN <<>>
    ELSE IF Head(ls).text # <<>> THEN <<Head(ls).text>> \o KeptTexts(Tail(ls))
    ELSE KeptTexts(Tail(ls))

\* aggregate_paragraph returns None: no text, or only whitespace once joined.
AggregatesToNone(ls) ==
    \/ ls = <<>>
    \/ KeptTexts(ls) = <<>>
    \/ Strip(JoinSpace(KeptTexts(ls))) = <<>>

\* aggregate_paragraph(lines) for a list it does not reject.  bbox holds the
\* vertical extent (bbox[1], bbox[3]); bold_ratio is in hundredths.
ParagraphOf(ls) ==
    LET n == Len(ls)
        bolds == Cardinality({i \in 1..n : ls[i].is_bold})
    IN  [ page_num             |-> ls[1].page_num,
          text                 |-> JoinSpace(KeptTexts(ls)),
          avg_font_size        |->
              RoundDiv(SumSeq([i \in 1..n |-> ls[i].font_size]), 10 * n) * 10,
          normalized_font_size |->
              RoundDiv(SumSeq([i \in 1..n |-> ls[i].normalized_font_size]), 10 * n) * 10,
          bbox                 |-> << SetMin({ls[i].y0 : i \in 1..n}),
                                      SetMax({ls[i].y1 : i \in 1..n}) >>,
          is_bold              |-> bolds = n,
          bold_ratio           |-> RoundDiv(100 * bolds, n),
          line_count           |-> n,
          font_names           |-> UNION {ls[i].font_names : i \in 1..n},
          relative_font_size   |-> 0 ]

\* aggregate_paragraph as an optional value: <<>> for None, <<record>> otherwise.
aggregate_paragraph(ls) == IF AggregatesToNone(ls) THEN <<>> ELSE <<ParagraphOf(ls)>>

\* The paragraphs appended for a sequence of flushed lists ("if para: append").
RECURSIVE AggregateAll(_)
AggregateAll(runs) ==
    IF runs = <<>> THEN <<>>
    ELSE aggregate_paragraph(Head(runs)) \o AggregateAll(Tail(runs))

\* group_into_paragraphs_strict(lines, extractor): the returned list.
group_into_paragraphs_strict(ls) == AggregateAll(FlushedRuns(ls))

\* The caller's list after the call: sorted in place, 'line_spacing' written
\* on every line but the first.  An empty list is returned before the sort.
LinesAfterGrouping(ls) == FlattenSeq(FlushedRuns(ls))


-----------------------------------------------------------------------------
(* extract_layout.py: font ranking.                                        *)

\* The elements of a list, as set(font_sizes) gives them.
Range(s) == {s[i] : i \in 1..Len(s)}

\* unique_rounded = sorted(set(round(fs, 2) for fs in sorted(set(font_sizes))))
unique_rounded(sizes) == {Round2(fs) : fs \in Range(sizes)}

\* A plausible slip: enumerate(unique_rounded, 1).
build_relative_font_ranks_from_one(sizes) ==
    [fs \in unique_rounded(sizes) |->
        1 + Cardinality({x \in unique_rounded(sizes) : x < fs})]

\* build_relative_font_ranks(font_sizes): {fs: idx for idx, fs in
\* enumerate(unique_rounded)}; the index of fs in the ascending list is the
\* number of smaller keys.  An empty list gives the empty mapping.
build_relative_font_ranks(sizes) ==
    [fs \in unique_rounded(sizes) |-> Cardinality({x \in unique_rounded(sizes) : x < fs})]

\* dict.get(key, 0)
GetOrZero(m, key) == IF key \in DOMAIN m THEN m[key] ELSE 0

\* The loop "para['relative_font_size'] = font_size_ranks.get(fs, 0)".
AssignRelativeFontSize(paras, ranks) ==
    [k \in 1..Len(paras) |->
        [paras[k] EXCEPT !.relative_font_size = GetOrZero(ranks, paras[k].avg_font_size)]]

-----------------------------------------------------------------------------
(* Inputs of the grouping study: line records as _process_line builds them. *)

\* Longest list of lines handed to one call of group_into_paragraphs_strict.
MaxLines == 3

\* A line record as _process_line returns it ('line_spacing' absent: -1); every
\* line is 10.0 high.
MkLine(page, y0, fs, bold, fonts, text) ==
    [ text                 |-> text,
      font_size            |-> fs,
      normalized_font_size |-> normalize_font_size(fs),
      is_bold              |-> bold,
      font_names           |-> fonts,
      y0                   |-> y0,
      y1                   |-> y0 + 100,
      page_num             |-> page,
      line_spacing         |-> -1 ]

\* Top coordinates: from y0 = 0 (y1 = 100) the next line is 14.9 or 15.0 away.
LineTops == {0, 249, 250}

BaseStyle == [page |-> 0, fs |-> 10000, bold |-> FALSE, fonts |-> {"Arial"}, text |-> <<"t">>]

\* Every style that differs from BaseStyle in at most one attribute.
LineStyles ==
    { st \in [ page  : {0, 1},
               fs    : {10000, 10200, 10400},
               bold  : BOOLEAN,
               fonts : {{"Arial"}, {"Times"}, {"Arial", "Times"}},
               text  : {<<>>, <<" ">>, <<"t">>} ] :
        Cardinality({f \in DOMAIN BaseStyle : st[f] # BaseStyle[f]}) <= 1 }

\* Base-style lines at every top; the other styles at the two lower tops, where
\* they meet a base line at 14.9 and at 15.0 and one another overlapping.
LinePool ==
    { l \in { MkLine(st.page, y, st.fs, st.bold, st.fonts, st.text) :
                 st \in LineStyles, y \in LineTops } :
        l.y0 = 0 => /\ l.page_num = BaseStyle.page
                    /\ l.font_size = BaseStyle.fs
                    /\ l.is_bold = BaseStyle.bold
                    /\ l.font_names = BaseStyle.fonts
                    /\ l.text = BaseStyle.text }

\* Variables a study does not use keep these values.
IdleGroup ==
    /\ lines = <<>> /\ lines0 = <<>> /\ paragraphs = <<>> /\ para_lines = <<>>

IdleDoc == doc = <<>> /\ page_num = 0 /\ all_font_sizes = <<>>

IdleRank == font_sizes = <<>> /\ font_size_ranks = <<>>

IdleLabel ==
    /\ json_data = <<>> /\ json0 = <<>> /\ labeled_data = <<>>
    /\ schema_data = [title |-> <<>>, outline |-> <<>>]
    /\ labeled0 = <<>>

IdleFile ==
    /\ json_file = [kind |-> "list", items |-> <<>>]
    /\ processed_count = 0
    /\ failed_count = 0

IdlePar == page_lines = <<>> /\ page_paragraphs = <<>>

GroupVars == <<lines, lines0, paragraphs, para_lines>>

LabelVars == <<json_data, json0, labeled_data, schema_data, labeled0>>

FileVars == <<json_file, processed_count, failed_count>>

ParVars == <<page_lines, page_paragraphs>>

DocVars == <<doc, page_num, all_font_sizes>>

RankVars == <<font_sizes, font_size_ranks>>

InitGroup ==
    /\ pc = "call"
    /\ lines \in SeqUpTo(LinePool, MaxLines)
    /\ lines0 = lines
    /\ paragraphs = <<>>
    /\ para_lines = <<>>
    /\ IdleDoc
    /\ IdleRank
    /\ IdleLabel
    /\ IdleFile
    /\ IdlePar

\* One call paragraphs = group_into_paragraphs_strict(lines, extractor).
GroupCall ==
    /\ pc = "call"
    /\ pc' = "grouped"
    /\ paragraphs' = group_into_paragraphs_strict(lines)
    /\ para_lines' = FlushedRuns(lines)
    /\ lines' = LinesAfterGrouping(lines)
    /\ UNCHANGED <<lines0, DocVars, RankVars, LabelVars, FileVars, ParVars>>

NextGroup == GroupCall

SpecGroup == InitGroup /\ [][NextGroup]_vars


-----------------------------------------------------------------------------
(* build_relative_font_ranks on its own.                                   *)

\* Longest list of sizes handed to build_relative_font_ranks.
MaxSizes == 3

\* Span sizes in thousandths: 9.996, 10.0 and 10.004 round to 10.0; 8.12 and
\* 8.125 (a tie exact in binary, rounded to even) round to 8.12; 10.01 is itself.
SizePool == {8120, 8125, 9996, 10000, 10004, 10010}

InitRank ==
    /\ pc = "call"
    /\ font_sizes \in SeqUpTo(SizePool, MaxSizes)
    /\ font_size_ranks = <<>>
    /\ IdleGroup
    /\ IdleDoc
    /\ IdleLabel
    /\ IdleFile
    /\ IdlePar

\* One call font_size_ranks = build_relative_font_ranks(font_sizes).
RankCall ==
    /\ pc = "call"
    /\ pc' = "ranked"
    /\ font_size_ranks' = build_relative_font_ranks(font_sizes)
    /\ UNCHANGED <<font_sizes, GroupVars, DocVars, LabelVars, FileVars, ParVars>>

NextRank == RankCall

SpecRank == InitRank /\ [][NextRank]_vars

-----------------------------------------------------------------------------
(* _extract_paragraphs_from_document: the page loop and the rank pass.     *)

\* Most pages in a document, most lines on one page.
MaxPages == 2

MaxPageLines == 2

\* Lines of a page before _process_line fixes their page number: two body
\* lines 0 apart once sorted and a larger line below them.
PageLinePool ==
    { MkLine(0, 0, 10000, FALSE, {"Arial"}, <<"t">>),
      MkLine(0, 100, 10000, FALSE, {"Arial"}, <<"t">>),
      MkLine(0, 250, 14000, FALSE, {"Arial"}, <<"T">>) }

\* The line records _extract_page_paragraphs collects for page n (0-based),
\* in block order: _process_line stamps page_num on each.
LinesOfPage(n) == [i \in 1..Len(doc[n + 1]) |-> [doc[n + 1][i] EXCEPT !.page_num = n]]

InitDoc ==
    /\ pc = "pages"
    /\ doc \in SeqUpTo(SeqUpTo(PageLinePool, MaxPageLines), MaxPages)
    /\ page_num = 0
    /\ all_font_sizes = <<>>
    /\ paragraphs = <<>>
    /\ para_lines = <<>>
    /\ lines = <<>>
    /\ lines0 = <<>>
    /\ IdleRank
    /\ IdleLabel
    /\ IdleFile
    /\ IdlePar

\* One iteration of "for page_num in range(len(doc))": the page's lines are
\* grouped, its paragraphs and font sizes appended.
ExtractPage ==
    /\ pc = "pages"
    /\ page_num < Len(doc)
    /\ LET lines_group == LinesOfPage(page_num)
       IN  /\ paragraphs' = paragraphs \o group_into_paragraphs_strict(lines_group)
           /\ para_lines' = para_lines \o FlushedRuns(lines_group)
           /\ all_font_sizes' =
                  all_font_sizes \o [i \in 1..Len(lines_group) |-> lines_group[i].font_size]
    /\ page_num' = page_num + 1
    /\ UNCHANGED <<pc, doc, lines, lines0, RankVars, LabelVars, FileVars, ParVars>>

\* After the loop: return early without font sizes, else rank every paragraph.
FinishExtract ==
    /\ pc = "pages"
    /\ page_num = Len(doc)
    /\ pc' = "extracted"
    /\ IF all_font_sizes = <<>>
       THEN UNCHANGED <<paragraphs, font_size_ranks>>
       ELSE /\ font_size_ranks' = build_relative_font_ranks(all_font_sizes)
            /\ paragraphs' =
                   AssignRelativeFontSize(paragraphs, build_relative_font_ranks(all_font_sizes))
    /\ UNCHANGED <<doc, page_num, all_font_sizes, para_lines, lines, lines0, font_sizes,
                   LabelVars, FileVars, ParVars>>

NextDoc == ExtractPage \/ FinishExtract

SpecDoc == InitDoc /\ [][NextDoc]_vars

-----------------------------------------------------------------------------
(* labeler.py: DocumentLabeler.label_document_hierarchy.                   *)
(* A paragraph record carries 'level'; "" stands for the key being absent. *)
(* Thresholds are kept in hundredths of a rank (np.percentile interpolates *)
(* between ranks), scores as exact fractions.                              *)

RECURSIVE InsertInt(_, _)
InsertInt(s, x) ==
    IF s = <<>> THEN <<x>>
    ELSE IF Head(s) <= x THEN <<Head(s)>> \o InsertInt(Tail(s), x)
    ELSE <<x>> \o s

\* sorted(xs), ascending.
RECURSIVE SortInts(_)
SortInts(xs) == IF xs = <<>> THEN <<>> ELSE InsertInt(SortInts(Tail(xs)), Head(xs))

\* lowest_page_num = min(page_numbers) if page_numbers else 1
LowestPageNum(data) == SetMin({data[i].page_num : i \in 1..Len(data)})

\* first_page_objects
FirstPageObjects(data) ==
    LET lowest_page_num == LowestPageNum(data)
    IN  SelectSeq(data, LAMBDA obj : obj.page_num = lowest_page_num)

\* The filter of title_candidates.
IsTitleCandidate(obj) ==
    /\ obj.relative_font_size > 0
    /\ Len(Strip(obj.text)) > 5
    /\ Len(Strip(obj.text)) < 200
    /\ ~IsDigit(Strip(obj.text))

title_candidates(data) == SelectSeq(FirstPageObjects(data), IsTitleCandidate)

\* title_max_font_size, for a non-empty list of candidates.
title_max_font_size(candidates) ==
    SetMax({candidates[i].relative_font_size : i \in 1..Len(candidates)})

max_font_objs(candidates) ==
    LET largest == title_max_font_size(candidates)
    IN  SelectSeq(candidates, LAMBDA obj : obj.relative_font_size = largest)

\* title_feats(obj)
title_feats(obj) == <<obj.relative_font_size, obj.primary_font_family, obj.is_bold>>

\* clusters[title_feats(obj)]: the objects of objs with obj's features, in order.
ClusterOf(objs, obj) == SelectSeq(objs, LAMBDA o : title_feats(o) = title_feats(obj))

\* max(clusters.values(), key=len): the dict keeps keys in order of first
\* appearance and max returns the first value of greatest length.
largest_cluster(objs) ==
    LET sizes == [i \in 1..Len(objs) |-> Len(ClusterOf(objs, objs[i]))]
        best == SetMax({sizes[i] : i \in 1..Len(objs)})
        first == SetMin({i \in 1..Len(objs) : sizes[i] = best})
    IN  ClusterOf(objs, objs[first])

\* " ".join(obj.get('text','').strip() for obj in largest_cluster if obj.get('text','').strip())
merged_text(cluster) ==
    JoinSpace(SelectSeq([i \in 1..Len(cluster) |-> Strip(cluster[i].text)],
                        LAMBDA t : t # <<>>))

\* float(np.mean([b[k] for b in bboxes])) for each coordinate k.
MeanBBox(cluster) ==
    [k \in 1..4 |-> SumSeq([i \in 1..Len(cluster) |-> cluster[i].bbox[k]]) \div Len(cluster)]

\* merged_title_obj: a copy of the cluster's first member with the merged
\* text and, for a cluster of several, the mean bounding box.
merged_title_obj(cluster) ==
    LET withText == [cluster[1] EXCEPT !.text = merged_text(cluster)]
    IN  IF Len(cluster) > 1 THEN [withText EXCEPT !.bbox = MeanBBox(cluster)] ELSE withText

\* title_candidate as an optional value: <<>> for None.
title_candidate(data) ==
    LET candidates == title_candidates(data)
    IN  IF candidates = <<>> THEN <<>>
        ELSE <<merged_title_obj(largest_cluster(max_font_objs(candidates)))>>

\* A plausible slip: a record is the title when it carries the title's text.
IsTitleObjByText(obj, tc) == tc # <<>> /\ Strip(obj.text) = tc[1].text

\* "title_candidate and obj == title_candidate": equality of whole dicts.
IsTitleObj(obj, tc) == tc # <<>> /\ obj = tc[1]

\* font_sizes: the positive ranks of every object but the title object.
FontSizesOf(data, tc) ==
    LET kept == SelectSeq(data, LAMBDA obj : obj.relative_font_size > 0 /\ ~IsTitleObj(obj, tc))
    IN  [i \in 1..Len(kept) |-> kept[i].relative_font_size]

\* np.percentile(a, q), linear interpolation, times 100: the virtual index
\* is q/100 * (n-1); the value interpolates between its two neighbours.
Percentile100(a, q) ==
    LET s == SortInts(a)
        ix == q * (Len(s) - 1)
        lo == ix \div 100
        hi == IF lo + 1 < Len(s) THEN lo + 1 ELSE lo
    IN  100 * s[lo + 1] + (ix % 100) * (s[hi + 1] - s[lo + 1])

\* sorted(set(font_sizes), reverse=True)
UniqueDescending(a) ==
    LET asc == SortInts(a)
        uniq == SelectSeq([i \in 1..Len(asc) |->
                              IF i > 1 /\ asc[i] = asc[i - 1] THEN 0 ELSE asc[i]],
                          LAMBDA x : x > 0)
    IN  [i \in 1..Len(uniq) |-> uniq[Len(uniq) + 1 - i]]

\* h1_threshold, h2_threshold, h3_threshold (times 100) for a non-empty font_sizes.
Thresholds(a) ==
    IF Len(a) >= 4
    THEN [h1 |-> Percentile100(a, 90), h2 |-> Percentile100(a, 75), h3 |-> Percentile100(a, 60)]
    ELSE LET u == UniqueDescending(a)
         IN  IF Len(u) >= 3 THEN [h1 |-> 100 * u[1], h2 |-> 100 * u[2], h3 |-> 100 * u[3]]
             ELSE IF Len(u) = 2 THEN [h1 |-> 100 * u[1], h2 |-> 100 * u[2], h3 |-> 0]
             ELSE IF Len(u) = 1 THEN [h1 |-> 100 * u[1], h2 |-> 0, h3 |-> 0]
             ELSE [h1 |-> 0, h2 |-> 0, h3 |-> 0]

\* calculate_enhanced_features: font_family is the first primary family, in lower case.
FontFamilyOf(obj) ==
    IF obj.primary_font_family # <<>> THEN obj.primary_font_family[1] ELSE ""

\* any(k in font_family for k in ['bold', 'heading', 'heavy', 'black']), on the
\* family names the inputs use.
has_bold_family(family) == family \in {"Arial-Bold", "Times-Bold"}

\* 'arial' in font_family or 'helvetica' in font_family
IsArialOrHelvetica(family) == family \in {"Arial", "Arial-Bold", "Helvetica"}

\* calculate_header_score without its font-size term, in thousandths of a point
\* of score: bold 25, bold_ratio * 20, family 15 or 5, line height up to 10,
\* case 10 or 8, alignment 10 or 7, position 7 or 5.
ScoreExtras(obj) ==
      (IF obj.is_bold THEN 25000 ELSE 0)
    + obj.bold_ratio * 200
    + (IF has_bold_family(FontFamilyOf(obj)) THEN 15000
       ELSE IF IsArialOrHelvetica(FontFamilyOf(obj)) THEN 5000 ELSE 0)
    + (IF obj.avg_line_height > 0 THEN Min(obj.avg_line_height * 5, 10000) ELSE 0)
    + (IF obj.text_case = "UPPER" THEN 10000
       ELSE IF obj.text_case = "Title" THEN 8000 ELSE 0)
    + (IF obj.alignment = "center" THEN 10000
       ELSE IF obj.alignment = "left" THEN 7000 ELSE 0)
    + (IF obj.bbox[2] < 1500 THEN 7000
       ELSE IF obj.bbox[2] < 4000 THEN 5000 ELSE 0)

\* max_threshold = max(h1_threshold, h2_threshold, h3_threshold, 1), times 100.
MaxThreshold(thr) == Max(Max(thr.h1, thr.h2), Max(thr.h3, 100))

\* header_score >= bound, for header_score = font_size / max_threshold * 30 +
\* extras: both sides multiplied by 1000 * max_threshold.
ScoreAtLeast(obj, thr, bound) ==
    obj.relative_font_size * 3000000 + ScoreExtras(obj) * MaxThreshold(thr)
        >= bound * 1000 * MaxThreshold(thr)

\* font_size >= threshold and threshold > 0
Meets(obj, threshold) == obj.relative_font_size * 100 >= threshold /\ threshold > 0

\* A plausible slip: between 45 and 65 a score of 55 is enough for H3, bold or not.
LevelByScoreAnyWeight(obj, thr) ==
    IF ScoreAtLeast(obj, thr, 65)
    THEN IF Meets(obj, thr.h1) THEN "H1"
         ELSE IF Meets(obj, thr.h2) THEN "H2"
         ELSE IF Meets(obj, thr.h3) THEN "H3"
         ELSE IF ScoreAtLeast(obj, thr, 75) THEN "H3"
         ELSE "p"
    ELSE IF ScoreAtLeast(obj, thr, 45)
    THEN IF Meets(obj, thr.h1) THEN "H1"
         ELSE IF Meets(obj, thr.h2) THEN "H2"
         ELSE IF Meets(obj, thr.h3) THEN "H3"
         ELSE IF ScoreAtLeast(obj, thr, 55) THEN "H3"
         ELSE "p"
    ELSE IF ScoreAtLeast(obj, thr, 25)
    THEN IF Meets(obj, thr.h1) /\ obj.is_bold THEN "H1"
         ELSE IF Meets(obj, thr.h2) /\ obj.is_bold THEN "H2"
         ELSE IF Meets(obj, thr.h3) /\ obj.is_bold THEN "H3"
         ELSE "p"
    ELSE "p"

\* The level the score bands give (the part of assign_enhanced_level after
\* the forced-'p' guards).
LevelByScore(obj, thr) ==
    IF ScoreAtLeast(obj, thr, 65)
    THEN IF Meets(obj, thr.h1) THEN "H1"
         ELSE IF Meets(obj, thr.h2) THEN "H2"
         ELSE IF Meets(obj, thr.h3) THEN "H3"
         ELSE IF ScoreAtLeast(obj, thr, 75) THEN "H3"
         ELSE "p"
    ELSE IF ScoreAtLeast(obj, thr, 45)
    THEN IF Meets(obj, thr.h1) THEN "H1"
         ELSE IF Meets(obj, thr.h2) THEN "H2"
         ELSE IF Meets(obj, thr.h3) THEN "H3"
         ELSE IF ScoreAtLeast(obj, thr, 55) /\ obj.is_bold THEN "H3"
         ELSE "p"
    ELSE IF ScoreAtLeast(obj, thr, 25)
    THEN IF Meets(obj, thr.h1) /\ obj.is_bold THEN "H1"
         ELSE IF Meets(obj, thr.h2) /\ obj.is_bold THEN "H2"
         ELSE IF Meets(obj, thr.h3) /\ obj.is_bold THEN "H3"
         ELSE "p"
    ELSE "p"

\* The variables of label_document_hierarchy that its nested functions read:
\* title_candidate (<<>> for None), lowest_page_num, title_max_font_size (0
\* while there is no candidate, where it is never read) and the thresholds.
Closure(data) ==
    LET tc == title_candidate(data)
    IN  [ title_candidate     |-> tc,
          lowest_page_num     |-> LowestPageNum(data),
          title_max_font_size |->
              IF tc = <<>> THEN 0 ELSE title_max_font_size(title_candidates(data)),
          thr                 |-> Thresholds(FontSizesOf(data, tc)) ]

\* assign_enhanced_level(idx, obj), env being the enclosing function's variables.
assign_enhanced_level(obj, env) ==
    IF IsTitleObj(obj, env.title_candidate) THEN "title"
    ELSE IF /\ env.title_candidate # <<>>
            /\ obj.page_num = env.lowest_page_num
            /\ obj.relative_font_size < env.title_max_font_size
    THEN "p"
    ELSE IF /\ Len(Strip(obj.text)) <= 3
            /\ (IsDigit(obj.text) \/ ~HasAlpha(obj.text))
    THEN "p"
    ELSE IF Len(Strip(obj.text)) > 350 THEN "p"
    ELSE LevelByScore(obj, env.thr)

\* initial_labels after the Phase C loop.
initial_labels(data, env) == [i \in 1..Len(data) |-> assign_enhanced_level(data[i], env)]

\* A plausible slip: the lookahead promotes a record whatever its weight.
LookaheadAnyWeight(data, env) ==
    LET init == initial_labels(data, env)
        thr == env.thr
    IN  [i \in 1..Len(data) |->
           [data[i] EXCEPT !.level =
               IF /\ init[i] \notin {"H1", "H2", "H3", "title"}
                  /\ i + 1 <= Len(data)
                  /\ init[i + 1] = "p"
                  /\ data[i].relative_font_size * 100 >= thr.h3
                  /\ data[i].relative_font_size > 0
               THEN "H3" ELSE init[i]]]

\* The lookahead loop: labeled_data after it, from the copies labeled in Phase C.
Lookahead(data, env) ==
    LET init == initial_labels(data, env)
        thr == env.thr
    IN  [i \in 1..Len(data) |->
           [data[i] EXCEPT !.level =
               IF /\ init[i] \notin {"H1", "H2", "H3", "title"}
                  /\ i + 1 <= Len(data)
                  /\ init[i + 1] = "p"
                  /\ data[i].is_bold
                  /\ data[i].relative_font_size * 100 >= thr.h3
                  /\ data[i].relative_font_size > 0
               THEN "H3" ELSE init[i]]]

\* A plausible slip: rewriting an H2 into H1 does not count as having seen an H1.
RECURSIVE RepairFromForgetful(_, _, _)
RepairFromForgetful(objs, seen_h1, seen_h2) ==
    IF objs = <<>> THEN <<>>
    ELSE LET obj == Head(objs)
             rest == Tail(objs)
         IN  IF obj.level = "H1" THEN <<obj>> \o RepairFromForgetful(rest, TRUE, seen_h2)
             ELSE IF obj.level = "H2"
             THEN IF ~seen_h1
                  THEN <<[obj EXCEPT !.level = "H1"]>> \o RepairFromForgetful(rest, seen_h1, seen_h2)
                  ELSE <<obj>> \o RepairFromForgetful(rest, seen_h1, TRUE)
             ELSE IF obj.level = "H3" /\ ~seen_h2
             THEN IF seen_h1
                  THEN <<[obj EXCEPT !.level = "H2"]>> \o RepairFromForgetful(rest, seen_h1, TRUE)
                  ELSE <<[obj EXCEPT !.level = "H1"]>> \o RepairFromForgetful(rest, TRUE, seen_h2)
             ELSE <<obj>> \o RepairFromForgetful(rest, seen_h1, seen_h2)

\* A plausible slip: an H3 met before any H2 is always lifted one level, to
\* H2, whether or not an H1 has been seen.
RECURSIVE RepairFromOneLevel(_, _, _)
RepairFromOneLevel(objs, seen_h1, seen_h2) ==
    IF objs = <<>> THEN <<>>
    ELSE LET obj == Head(objs)
             rest == Tail(objs)
         IN  IF obj.level = "H1" THEN <<obj>> \o RepairFromOneLevel(rest, TRUE, seen_h2)
             ELSE IF obj.level = "H2"
             THEN IF ~seen_h1
                  THEN <<[obj EXCEPT !.level = "H1"]>> \o RepairFromOneLevel(rest, TRUE, seen_h2)
                  ELSE <<obj>> \o RepairFromOneLevel(rest, seen_h1, TRUE)
             ELSE IF obj.level = "H3" /\ ~seen_h2
             THEN <<[obj EXCEPT !.level = "H2"]>> \o RepairFromOneLevel(rest, seen_h1, TRUE)
             ELSE <<obj>> \o RepairFromOneLevel(rest, seen_h1, seen_h2)

\* The scan of _ensure_logical_hierarchy from the head of objs on, with the
\* flags seen_h1 and seen_h2 (seen_title is written and never read).
RECURSIVE RepairFrom(_, _, _)
RepairFrom(objs, seen_h1, seen_h2) ==
    IF objs = <<>> THEN <<>>
    ELSE LET obj == Head(objs)
             rest == Tail(objs)
         IN  IF obj.level = "H1" THEN <<obj>> \o RepairFrom(rest, TRUE, seen_h2)
             ELSE IF obj.level = "H2"
             THEN IF ~seen_h1
                  THEN <<[obj EXCEPT !.level = "H1"]>> \o RepairFrom(rest, TRUE, seen_h2)
                  ELSE <<obj>> \o RepairFrom(rest, seen_h1, TRUE)
             ELSE IF obj.level = "H3" /\ ~seen_h2
             THEN IF seen_h1
                  THEN <<[obj EXCEPT !.level = "H2"]>> \o RepairFrom(rest, seen_h1, TRUE)
                  ELSE <<[obj EXCEPT !.level = "H1"]>> \o RepairFrom(rest, TRUE, seen_h2)
             ELSE <<obj>> \o RepairFrom(rest, seen_h1, seen_h2)

\* A plausible slip: the repair pass leaves the labels alone.
ensure_logical_hierarchy_skipped(labeled) == labeled

\* _ensure_logical_hierarchy(labeled_data)
ensure_logical_hierarchy(labeled) == RepairFrom(labeled, FALSE, FALSE)

\* The branch "if not font_sizes": every record of json_data itself gets
\* 'title' or 'p', and json_data is returned.
LabelWithoutFontSizes(data) ==
    LET tc == title_candidate(data)
    IN  [i \in 1..Len(data) |->
            [data[i] EXCEPT !.level = IF IsTitleObj(data[i], tc) THEN "title" ELSE "p"]]

\* label_document_hierarchy takes the branch "if not font_sizes".
HasNoFontSizes(data) == FontSizesOf(data, title_candidate(data)) = <<>>

\* label_document_hierarchy(json_data): the returned list.
label_document_hierarchy(data) ==
    IF data = <<>> THEN data
    ELSE IF HasNoFontSizes(data) THEN LabelWithoutFontSizes(data)
    ELSE ensure_logical_hierarchy(Lookahead(data, Closure(data)))

\* json_data as the call leaves it: written to only in the branch without font sizes.
JsonDataAfterLabeling(data) ==
    IF data # <<>> /\ HasNoFontSizes(data) THEN LabelWithoutFontSizes(data) ELSE data

\* A plausible slip: an entry equal to an earlier one is left out.
RECURSIVE OutlineOfDeduplicated(_)
OutlineOfDeduplicated(labeled) ==
    IF labeled = <<>> THEN <<>>
    ELSE LET obj == labeled[Len(labeled)]
             before == OutlineOfDeduplicated(SubSeq(labeled, 1, Len(labeled) - 1))
             entry == [level |-> obj.level, text |-> Strip(obj.text), page |-> obj.page_num]
         IN  IF /\ obj.level \in {"H1", "H2", "H3"}
                /\ Strip(obj.text) # <<>>
                /\ \A k \in 1..Len(before) : before[k] # entry
             THEN Append(before, entry)
             ELSE before

\* The outline entries of transform_to_schema, in input order.
RECURSIVE OutlineOf(_)
OutlineOf(labeled) ==
    IF labeled = <<>> THEN <<>>
    ELSE LET obj == Head(labeled)
         IN  (IF obj.level \in {"H1", "H2", "H3"} /\ Strip(obj.text) # <<>>
              THEN <<[level |-> obj.level, text |-> Strip(obj.text), page |-> obj.page_num]>>
              ELSE <<>>) \o OutlineOf(Tail(labeled))

\* A plausible slip: a document without a title record is given a stock title.
transform_to_schema_untitled(labeled) ==
    LET titles == SelectSeq(labeled, LAMBDA obj : obj.level = "title")
    IN  [ title   |-> IF titles # <<>> THEN Strip(titles[1].text)
                      ELSE <<"U", "n", "t", "i", "t", "l", "e", "d">>,
          outline |-> OutlineOf(labeled) ]

\* transform_to_schema(labeled_data): the title is the stripped text of the
\* first record labeled 'title', "" without one.
transform_to_schema(labeled) ==
    LET titles == SelectSeq(labeled, LAMBDA obj : obj.level = "title")
    IN  [ title   |-> IF titles # <<>> THEN Strip(titles[1].text) ELSE <<>>,
          outline |-> OutlineOf(labeled) ]

-----------------------------------------------------------------------------
(* The labeling of one document: label_document_hierarchy, then            *)
(* transform_to_schema, as process_single_file calls them.                 *)

\* Longest list of paragraph records handed to label_document_hierarchy.
MaxParas == 4

Report == <<"R", "e", "p", "o", "r", "t">>

Annual == <<"A", "n", "n", "u", "a", "l">>

Intro == <<"I", "n", "t", "r", "o">>

\* A paragraph record as the extractor writes it, not yet labeled: a
\* left-aligned paragraph in Times, lines 12.0 high, low on the page.
MkPara(page, rank, bold, text, case) ==
    [ paragraph_id        |-> 0,
      page_num            |-> page,
      relative_font_size  |-> rank,
      text                |-> text,
      is_bold             |-> bold,
      bold_ratio          |-> IF bold THEN 100 ELSE 0,
      primary_font_family |-> <<"Times">>,
      avg_line_height     |-> 1200,
      text_case           |-> case,
      alignment           |-> "left",
      bbox                |-> <<720, 4200, 5400, 4320>>,
      level               |-> "" ]

\* Title-like paragraphs of the first page (two alike, one lighter), short
\* headings and body text of ranks 0..3, a bare page number, and two
\* paragraphs of a second page.
ParaPool ==
    { MkPara(1, 3, TRUE, Report, "Title"),
      MkPara(1, 3, TRUE, Annual, "Title"),
      MkPara(1, 3, FALSE, Report, "Title"),
      MkPara(1, 3, TRUE, Intro, "Title"),
      MkPara(1, 2, TRUE, Intro, "Title"),
      MkPara(1, 1, TRUE, Intro, "Title"),
      MkPara(1, 1, FALSE, Intro, "Title"),
      MkPara(1, 0, FALSE, Intro, "Title"),
      MkPara(1, 2, TRUE, <<"7">>, "Mixed"),
      MkPara(2, 2, TRUE, Report, "Title"),
      MkPara(2, 1, FALSE, Intro, "Title") }

\* The extractor appends the paragraphs page after page.
InPageOrder(data) == \A i, j \in 1..Len(data) : i < j => data[i].page_num <= data[j].page_num

\* Every paragraph gets an identifier of its own (aggregate_paragraph draws a
\* uuid); here it is the position.
WithParagraphIds(data) == [i \in 1..Len(data) |-> [data[i] EXCEPT !.paragraph_id = i]]

Init ==
    /\ pc = "call"
    /\ \E data \in SeqUpTo(ParaPool, MaxParas) :
          InPageOrder(data) /\ json_data = WithParagraphIds(data)
    /\ json0 = json_data
    /\ labeled_data = <<>>
    /\ schema_data = [title |-> <<>>, outline |-> <<>>]
    /\ labeled0 = <<>>
    /\ IdleGroup
    /\ IdleDoc
    /\ IdleRank
    /\ IdleFile
    /\ IdlePar

\* labeled_data = self.label_document_hierarchy(json_data)
LabelDocument ==
    /\ pc = "call"
    /\ pc' = "labeled"
    /\ labeled_data' = label_document_hierarchy(json_data)
    /\ json_data' = JsonDataAfterLabeling(json_data)
    /\ UNCHANGED <<json0, schema_data, labeled0, GroupVars, DocVars, RankVars, FileVars, ParVars>>

\* schema_data = self.transform_to_schema(labeled_data)
TransformToSchema ==
    /\ pc = "labeled"
    /\ pc' = "projected"
    /\ schema_data' = transform_to_schema(labeled_data)
    /\ UNCHANGED <<json_data, json0, labeled_data, labeled0, GroupVars, DocVars, RankVars,
                   FileVars, ParVars>>

Next == LabelDocument \/ TransformToSchema

Spec == Init /\ [][Next]_vars

-----------------------------------------------------------------------------
(* Properties of the grouping (SpecGroup, SpecDoc) and of the ranking       *)
(* (SpecRank).                                                              *)

\* Number of positions of s holding x.
Count(s, x) == Cardinality({i \in 1..Len(s) : s[i] = x})

\* A flushed list whose lines hold nothing but whitespace.
RunIsBlank(r) == \A i \in 1..Len(r) : Strip(r[i].text) = <<>>

\* The flushed lists with visible text, and those without.
KeptRuns == SelectSeq(para_lines, LAMBDA r : ~RunIsBlank(r))

DroppedRuns == SelectSeq(para_lines, LAMBDA r : RunIsBlank(r))

\* A line as the caller passed it: without the 'line_spacing' the call writes.
AsPassed(l) == [l EXCEPT !.line_spacing = -1]

\* C2: group_into_paragraphs_strict puts every input line in exactly one
\* flushed paragraph (as many copies flushed as passed, none more); each
\* output paragraph is one flushed list with visible text and counts its
\* lines; so the line_count values plus the lines of the whitespace-only lists
\* add up to the number of input lines.
C2_Coverage ==
    pc = "grouped" =>
        LET flushed == FlattenSeq(para_lines)
        IN  /\ \A l \in LinePool :
                  Count(lines0, l) = Count([i \in 1..Len(flushed) |-> AsPassed(flushed[i])], l)
            /\ Len(flushed) = Len(lines0)
            /\ \A k \in 1..Len(para_lines) : para_lines[k] # <<>>
            /\ Len(paragraphs) = Len(KeptRuns)
            /\ \A k \in 1..Len(KeptRuns) : paragraphs[k].line_count = Len(KeptRuns[k])
            /\ SumSeq([k \in 1..Len(paragraphs) |-> paragraphs[k].line_count])
                 + SumSeq([k \in 1..Len(DroppedRuns) |-> Len(DroppedRuns[k])])
               = Len(lines0)

\* C2 happens: three lines were grouped into a two-line paragraph and a
\* whitespace-only list that produced no paragraph.
C2_Witness ==
    /\ pc = "grouped"
    /\ Len(lines0) = 3
    /\ Len(DroppedRuns) = 1
    /\ \E k \in 1..Len(paragraphs) : paragraphs[k].line_count = 2

\* The merge rule as the specification words it, 15.0 being 150 tenths.
MergeRule(prev, curr) ==
    /\ curr.page_num = prev.page_num
    /\ (IF curr.y0 - prev.y1 > 0 THEN curr.y0 - prev.y1 ELSE 0) < 150
    /\ curr.normalized_font_size = prev.normalized_font_size
    /\ curr.is_bold = prev.is_bold
    /\ \E name \in curr.font_names : name \in prev.font_names

\* The positions, in the sorted list, at which a flushed paragraph begins.
RunStarts ==
    {1 + SumSeq([j \in 1..(k - 1) |-> Len(para_lines[j])]) : k \in 1..Len(para_lines)}

C9_DocumentOrder ==
    /\ Len(paragraphs) = Len(para_lines)
    /\ \A k \in 1..Len(paragraphs) :
          /\ paragraphs[k].page_num = para_lines[k][1].page_num
          /\ paragraphs[k].bbox[1] = para_lines[k][1].y0
          /\ \A i, j \in 1..Len(para_lines[k]) :
                i < j => para_lines[k][i].y0 <= para_lines[k][j].y0
    /\ \A a, b \in 1..Len(paragraphs) :
          a < b =>
            /\ paragraphs[a].page_num <= paragraphs[b].page_num
            /\ paragraphs[a].page_num = paragraphs[b].page_num =>
                 /\ paragraphs[a].bbox[1] <= paragraphs[b].bbox[1]
                 /\ \A i \in 1..Len(para_lines[a]), j \in 1..Len(para_lines[b]) :
                       para_lines[a][i].y0 <= para_lines[b][j].y0

\* C9 happens: a two-page document was extracted, one page had its lines
\* arriving bottom line first, and that page gave two paragraphs.
C9_Witness ==
    /\ pc = "extracted"
    /\ Len(doc) = 2
    /\ \E n \in 1..Len(doc) :
          /\ Len(doc[n]) = 2
          /\ doc[n][1].y0 > doc[n][2].y0
          /\ Cardinality({k \in 1..Len(paragraphs) : paragraphs[k].page_num = n - 1}) = 2

\* The rank of a size present in the input: the rank stored under its
\* two-decimal rounding, the only key it can be found under.
RankOf(fs) == GetOrZero(font_size_ranks, Round2(fs))

\* C10 as claimed: ranks increase strictly with the sizes present, whatever
\* their distance; the smallest has rank 0 and k distinct sizes use 0..k-1.
C10_AsClaimed ==
    (pc = "ranked" /\ font_sizes # <<>>) =>
        /\ \A a, b \in Range(font_sizes) : a < b => RankOf(a) < RankOf(b)
        /\ RankOf(SetMin(Range(font_sizes))) = 0
        /\ {RankOf(a) : a \in Range(font_sizes)} = 0..(Cardinality(Range(font_sizes)) - 1)

\* C10 amended: the keys are the two-decimal roundings of the sizes present;
\* ranks increase strictly with the rounded size, the smallest rounded size has
\* rank 0, k distinct rounded sizes use exactly 0..k-1, and sizes with the
\* same rounding share a rank.
C10_RoundedRanks ==
    (pc = "ranked" /\ font_sizes # <<>>) =>
        /\ DOMAIN font_size_ranks = {Round2(a) : a \in Range(font_sizes)}
        /\ \A a, b \in Range(font_sizes) :
              /\ Round2(a) < Round2(b) => RankOf(a) < RankOf(b)
              /\ Round2(a) = Round2(b) => RankOf(a) = RankOf(b)
        /\ RankOf(SetMin(Range(font_sizes))) = 0
        /\ {font_size_ranks[k] : k \in DOMAIN font_size_ranks}
             = 0..(Cardinality(DOMAIN font_size_ranks) - 1)

\* C10 happens: two sizes less than 0.01 apart were ranked together with a
\* size that rounds elsewhere.
C10_Witness ==
    /\ pc = "ranked"
    /\ \E a, b, c \in Range(font_sizes) :
          /\ a < b /\ b - a < 10 /\ Round2(a) = Round2(b)
          /\ Round2(c) # Round2(a)
          /\ Cardinality(DOMAIN font_size_ranks) = 2

-----------------------------------------------------------------------------
(* Properties of the labeling (Spec).                                      *)

Headings == {"H1", "H2", "H3"}

\* The positions of labeled_data carrying the label l.
Labeled(l) == {i \in 1..Len(labeled_data) : labeled_data[i].level = l}

\* labeled_data before the repair pass ran over it (a document with font sizes).
BeforeRepair == Lookahead(json0, Closure(json0))

\* C1: in the list label_document_hierarchy returns, every H2 has an H1
\* somewhere before it and every H3 has an H2 somewhere before it.
C1_HierarchyLegal ==
    /\ \A i \in Labeled("H2") : \E j \in Labeled("H1") : j < i
    /\ \A i \in Labeled("H3") : \E j \in Labeled("H2") : j < i

\* C1 happens: a document was labeled, the repair pass rewrote a label, and
\* the result holds an H3 (so an H2 and an H1 before it).
C1_Witness ==
    /\ pc = "labeled"
    /\ ~HasNoFontSizes(json0)
    /\ \E i \in 1..Len(labeled_data) : labeled_data[i].level # BeforeRepair[i].level
    /\ Labeled("H3") # {}

\* C4: at most one record of the returned list is labeled 'title'.
C4_AtMostOneTitle == Cardinality(Labeled("title")) <= 1

\* C4 happens: a document was labeled, one record is the title, and another
\* record carries the same text as the title.
C4_Witness ==
    /\ pc = "labeled"
    /\ \E i \in Labeled("title") :
          \E j \in 1..Len(labeled_data) :
             j # i /\ Strip(labeled_data[j].text) = Strip(labeled_data[i].text)

\* C5: once there is a title candidate on the lowest page, the title of the
\* outline is the space-joined text of the largest cluster of the candidates
\* of greatest rank, whatever the size of that cluster.
C5_TitleIsMergedCluster ==
    (pc = "projected" /\ title_candidates(json0) # <<>>) =>
        schema_data.title = merged_text(largest_cluster(max_font_objs(title_candidates(json0))))

\* C6: once a record is labeled 'title', no record of the title's page with a
\* rank below the title's is a heading in the returned list.
C6_NoSmallerHeadingOnTitlePage ==
    \A t \in Labeled("title") :
       \A i \in 1..Len(labeled_data) :
          (/\ labeled_data[i].page_num = labeled_data[t].page_num
           /\ labeled_data[i].relative_font_size < labeled_data[t].relative_font_size)
             => labeled_data[i].level \notin Headings

\* A text of at most 3 characters once stripped that is purely numeric or has
\* no letter, or a text of more than 350.
IsPageNumberOrLong(text) ==
    \/ Len(Strip(text)) <= 3 /\ (IsDigit(Strip(text)) \/ ~HasAlpha(text))
    \/ Len(Strip(text)) > 350

\* C7: a record with such a text is never a heading in the returned list.
C7_PageNumberNeverHeading ==
    \A i \in 1..Len(labeled_data) :
       IsPageNumberOrLong(labeled_data[i].text) => labeled_data[i].level \notin Headings

\* The labels of the headings of labeled_data, in order.
HeadingLevels ==
    LET hs == SelectSeq(labeled_data, LAMBDA obj : obj.level \in Headings)
    IN  [i \in 1..Len(hs) |-> hs[i].level]

Depth(l) == IF l = "H1" THEN 1 ELSE IF l = "H2" THEN 2 ELSE 3

\* C8: among the headings of the returned list the first is H1 and each
\* later one is at most one level deeper than the heading just before it.
C8_NeverSkipsDeeper ==
    /\ HeadingLevels # <<>> => HeadingLevels[1] = "H1"
    /\ \A i \in 2..Len(HeadingLevels) :
          Depth(HeadingLevels[i]) <= Depth(HeadingLevels[i - 1]) + 1

-----------------------------------------------------------------------------
(* _ensure_logical_hierarchy and transform_to_schema on any labeled list.  *)

\* Longest labeled list handed to _ensure_logical_hierarchy.
MaxLabeled == 4

Blank == <<" ">>

Padded == <<" ", "A", " ">>

Levels == {"title", "H1", "H2", "H3", "p"}

\* Labeled records: every level on a plain text, and headings and titles
\* whose text is blank or padded with spaces.
LabeledPool ==
    {[MkPara(1, 1, TRUE, Intro, "Title") EXCEPT !.level = l] : l \in Levels}
    \cup {[MkPara(1, 1, TRUE, Blank, "Mixed") EXCEPT !.level = l] : l \in {"title", "H1", "H2"}}
    \cup {[MkPara(2, 1, TRUE, Padded, "UPPER") EXCEPT !.level = l] : l \in {"title", "H3"}}

InitRepair ==
    /\ pc = "repair"
    /\ \E data \in SeqUpTo(LabeledPool, MaxLabeled) :
          InPageOrder(data) /\ labeled_data = WithParagraphIds(data)
    /\ labeled0 = labeled_data
    /\ json_data = <<>>
    /\ json0 = <<>>
    /\ schema_data = [title |-> <<>>, outline |-> <<>>]
    /\ IdleGroup
    /\ IdleDoc
    /\ IdleRank
    /\ IdleFile
    /\ IdlePar

\* labeled_data = self._ensure_logical_hierarchy(labeled_data)
EnsureLogicalHierarchy ==
    /\ pc = "repair"
    /\ pc' = "labeled"
    /\ labeled_data' = ensure_logical_hierarchy(labeled_data)
    /\ UNCHANGED <<json_data, json0, schema_data, labeled0, GroupVars, DocVars, RankVars,
                   FileVars, ParVars>>

NextRepair == EnsureLogicalHierarchy \/ TransformToSchema

SpecRepair == InitRepair /\ [][NextRepair]_vars

-----------------------------------------------------------------------------
(* Properties of the repair pass and of the projection (SpecRepair).       *)

\* The positions of labeled_data that transform_to_schema turns into entries.
OutlinePositions ==
    {i \in 1..Len(labeled_data) :
        labeled_data[i].level \in Headings /\ Strip(labeled_data[i].text) # <<>>}

\* The k-th of them, counting from 1.
OutlinePosition(k) ==
    CHOOSE i \in OutlinePositions : Cardinality({j \in OutlinePositions : j <= i}) = k

\* C11: transform_to_schema returns the two fields title and outline; title
\* is the stripped text of the first record labeled 'title' ("" without
\* one); outline has one entry {level, text, page} per heading with
\* non-empty stripped text, in input order, nothing merged, repeated or left
\* out, and nothing else in an entry.
C11_SchemaShape ==
    pc = "projected" =>
        /\ DOMAIN schema_data = {"title", "outline"}
        /\ IF Labeled("title") = {}
           THEN schema_data.title = <<>>
           ELSE schema_data.title = Strip(labeled_data[SetMin(Labeled("title"))].text)
        /\ Len(schema_data.outline) = Cardinality(OutlinePositions)
        /\ \A k \in 1..Len(schema_data.outline) :
              LET obj == labeled_data[OutlinePosition(k)]
                  entry == schema_data.outline[k]
              IN  /\ DOMAIN entry = {"level", "text", "page"}
                  /\ entry.level = obj.level
                  /\ entry.text = Strip(obj.text)
                  /\ entry.page = obj.page_num

\* C11 happens: a list with two titles of different texts, a heading
\* without text and a heading with text was projected.
C11_Witness ==
    /\ pc = "projected"
    /\ \E i, j \in Labeled("title") :
          i < j /\ Strip(labeled_data[i].text) # Strip(labeled_data[j].text)
    /\ \E i \in 1..Len(labeled_data) :
          labeled_data[i].level \in Headings /\ Strip(labeled_data[i].text) = <<>>
    /\ schema_data.outline # <<>>

\* Some record before position i carries the label l once the scan has passed it.
SeenBefore(i, l) == \E j \in 1..(i - 1) : labeled_data[j].level = l

\* C16: the repair pass, scanning in order, turns an H2 met before any H1
\* into H1 and an H3 met before any H2 into H2 if an H1 has been seen, else
\* into H1 (the labels met being those the scan has left behind it); title, p
\* and H1, an H2 after an H1 and an H3 after an H2 are kept; nothing but
\* level changes, no label gets deeper, and the records keep their number
\* and order.
C16_RepairRewrites ==
    pc \in {"labeled", "projected"} =>
        /\ Len(labeled_data) = Len(labeled0)
        /\ \A i \in 1..Len(labeled0) :
              LET old == labeled0[i].level
                  new == labeled_data[i].level
              IN  /\ labeled_data[i] = [labeled0[i] EXCEPT !.level = new]
                  /\ old \in {"title", "p", "H1"} => new = old
                  /\ old = "H2" => new = (IF SeenBefore(i, "H1") THEN "H2" ELSE "H1")
                  /\ old = "H3" => new = (IF SeenBefore(i, "H2") THEN "H3"
                                          ELSE IF SeenBefore(i, "H1") THEN "H2" ELSE "H1")
                  /\ old \in Headings => new \in Headings /\ Depth(new) <= Depth(old)

\* C16 happens: title, H1, H3 was repaired into title, H1, H2.
C16_Witness ==
    /\ pc = "labeled"
    /\ [i \in 1..Len(labeled0) |-> labeled0[i].level] = <<"title", "H1", "H3">>
    /\ [i \in 1..Len(labeled_data) |-> labeled_data[i].level] = <<"title", "H1", "H2">>

-----------------------------------------------------------------------------
(* process_single_file: the JSON file is read, labeled, projected and       *)
(* written back in place; any exception is caught and counted.             *)

\* Most records in the list a file holds, most calls on one file.
MaxFileParas == 3

MaxRuns == 2

\* JSON null as the value of 'text'.  A text is a sequence of characters;
\* null is the one sequence holding a token that is no character.
Null == <<"null">>

\* obj.get('text', '').strip() raises AttributeError when 'text' is null.
StripRaises(obj) == obj.text = Null

\* label_document_hierarchy(json_data) raises: the title filter strips the
\* text of a first-page record of positive rank; past the early return for
\* "not font_sizes", calculate_enhanced_features strips the text of every
\* record, in Phase C or, for one forced to 'p' before that, in the lookahead.
label_document_hierarchy_raises(data) ==
    \/ \E i \in 1..Len(data) :
          /\ data[i].page_num = LowestPageNum(data)
          /\ data[i].relative_font_size > 0
          /\ StripRaises(data[i])
    \/ /\ data # <<>>
       /\ ~HasNoFontSizes(data)
       /\ \E i \in 1..Len(data) : StripRaises(data[i])

\* transform_to_schema(labeled_data) raises: it strips the text of every record.
transform_to_schema_raises(labeled) == \E i \in 1..Len(labeled) : StripRaises(labeled[i])

\* The content of a JSON file: a list of records, [kind |-> "list", items |-> ...],
\* or the object transform_to_schema wrote, [kind |-> "dict", title, outline].
JsonList(items) == [kind |-> "list", items |-> items]

JsonSchema(schema) == [kind |-> "dict", title |-> schema.title, outline |-> schema.outline]

\* label_document_hierarchy on what json.load returned.  Iterating a dict
\* yields its keys, none of which is a dict: all_objects is empty and the
\* argument is returned as it is.
LabelJson(content) ==
    IF content.kind = "list" THEN JsonList(label_document_hierarchy(content.items))
    ELSE content

\* transform_to_schema on what label_document_hierarchy returned.  Over a
\* dict the loops meet only its keys: no title record, no outline entry.
SchemaOfJson(content) ==
    IF content.kind = "list" THEN transform_to_schema(content.items)
    ELSE [title |-> <<>>, outline |-> <<>>]

\* A title, a heading, body text, a bold record without 'text' (read as ''),
\* two records whose 'text' is null, and a heading of a second page.
FilePool ==
    { MkPara(1, 3, TRUE, Report, "Title"),
      MkPara(1, 1, TRUE, Intro, "Title"),
      MkPara(1, 0, FALSE, Intro, "Title"),
      MkPara(1, 2, TRUE, <<>>, "Mixed"),
      MkPara(1, 2, TRUE, Null, "Mixed"),
      MkPara(1, 0, FALSE, Null, "Mixed"),
      MkPara(2, 2, TRUE, Report, "Title") }

InitFile ==
    /\ pc = "ready"
    /\ \E data \in SeqUpTo(FilePool, MaxFileParas) :
          InPageOrder(data) /\ json_file = JsonList(WithParagraphIds(data))
    /\ processed_count = 0
    /\ failed_count = 0
    /\ IdleGroup
    /\ IdleDoc
    /\ IdleRank
    /\ IdleLabel
    /\ IdlePar

\* One call process_single_file(json_file_path); pc records how it ended:
\* "written" (returned True), or the call that raised (returned False, the
\* file left as it was).
ProcessSingleFile ==
    /\ processed_count + failed_count < MaxRuns
    /\ IF json_file.kind = "list" /\ label_document_hierarchy_raises(json_file.items)
       THEN /\ pc' = "label_raised"
            /\ failed_count' = failed_count + 1
            /\ UNCHANGED <<json_file, processed_count>>
       ELSE IF json_file.kind = "list" /\ transform_to_schema_raises(json_file.items)
       THEN /\ pc' = "schema_raised"
            /\ failed_count' = failed_count + 1
            /\ UNCHANGED <<json_file, processed_count>>
       ELSE /\ pc' = "written"
            /\ json_file' = JsonSchema(SchemaOfJson(LabelJson(json_file)))
            /\ processed_count' = processed_count + 1
            /\ UNCHANGED failed_count
    /\ UNCHANGED <<GroupVars, DocVars, RankVars, LabelVars, ParVars>>

NextFile == ProcessSingleFile

SpecFile == InitFile /\ [][NextFile]_vars

-----------------------------------------------------------------------------
(* Properties of empty and malformed input and of the written file.        *)

\* C12: an empty line list gives no paragraph, and an empty paragraph list
\* labeled and projected gives exactly {"title": "", "outline": []}.
C12_EmptyInput ==
    /\ group_into_paragraphs_strict(<<>>) = <<>>
    /\ (pc \in {"labeled", "projected"} /\ json0 = <<>>) => labeled_data = <<>>
    /\ (pc = "projected" /\ json0 = <<>>) => schema_data = [title |-> <<>>, outline |-> <<>>]

\* C12 happens: the empty list was labeled and projected.
C12_Witness == pc = "projected" /\ json0 = <<>> /\ schema_data.outline = <<>>

\* C13: label_document_hierarchy never ends in an error, whatever field of
\* a record is missing or malformed.
C13_NeverRaises == pc # "label_raised"

\* The entries of the written outline, and the positions of those of level l.
WrittenOutline == IF json_file.kind = "dict" THEN json_file.outline ELSE <<>>

EntriesAt(l) == {k \in 1..Len(WrittenOutline) : WrittenOutline[k].level = l}

\* C19: in the outline written for any input, every H2 entry has an H1
\* entry before it and every H3 entry an H2 entry before it.
C19_OutlineLegal ==
    /\ \A k \in EntriesAt("H2") : \E j \in EntriesAt("H1") : j < k
    /\ \A k \in EntriesAt("H3") : \E j \in EntriesAt("H2") : j < k

\* C20: process_single_file on a file already in {title, outline} form
\* leaves its title and its outline as they were.
C20_RelabelingPreserves == [][json_file.kind = "dict" => json_file' = json_file]_vars

\* C14: the core operations leave their inputs as they were: the caller's
\* line list after group_into_paragraphs_strict, the caller's records after
\* label_document_hierarchy.
C14_InputsUnchanged ==
    /\ pc = "grouped" => lines = lines0
    /\ pc \in {"labeled", "projected"} => json_data = json0

-----------------------------------------------------------------------------
(* label_document_hierarchy over records that differ in what the header     *)
(* score counts: weight, case, alignment, position, font family.           *)

\* A bold record with nothing else in its favour: right-aligned, mixed case.
PlainBold(rank) == [MkPara(2, rank, TRUE, Intro, "Mixed") EXCEPT !.alignment = "right"]

\* A light record with nothing in its favour.
PlainLight(rank) == [MkPara(2, rank, FALSE, Intro, "Mixed") EXCEPT !.alignment = "right"]

\* A light record with everything else in its favour: centred capitals at
\* the top of the page in a family named bold.
DressedLight(rank) ==
    [MkPara(2, rank, FALSE, Intro, "UPPER") EXCEPT
        !.alignment = "center",
        !.bbox = <<720, 1000, 5400, 1120>>,
        !.primary_font_family = <<"Times-Bold">>]

\* A record marked bold whose bold_ratio is missing (read as 0).
BoldWithoutRatio(rank) == [PlainBold(rank) EXCEPT !.bold_ratio = 0]

ScorePool ==
    { MkPara(1, 3, TRUE, Report, "Title"),
      MkPara(1, 1, TRUE, Intro, "Title"),
      MkPara(2, 3, TRUE, Intro, "Title"),
      MkPara(2, 0, TRUE, Intro, "Title"),
      MkPara(2, 0, FALSE, Intro, "Title"),
      PlainBold(1),
      PlainBold(0),
      PlainLight(1),
      DressedLight(1),
      BoldWithoutRatio(1) }

InitLevels ==
    /\ pc = "call"
    /\ \E data \in SeqUpTo(ScorePool, MaxParas) :
          InPageOrder(data) /\ json_data = WithParagraphIds(data)
    /\ json0 = json_data
    /\ labeled_data = <<>>
    /\ schema_data = [title |-> <<>>, outline |-> <<>>]
    /\ labeled0 = <<>>
    /\ IdleGroup
    /\ IdleDoc
    /\ IdleRank
    /\ IdleFile
    /\ IdlePar

NextLevels == LabelDocument \/ TransformToSchema

SpecLevels == InitLevels /\ [][NextLevels]_vars

-----------------------------------------------------------------------------
(* Properties of Phase C and of the lookahead pass (SpecLevels).           *)

\* The list s with its elements computed once.
Listed(s) == <<>> \o s

\* A document went through the phases (it had font sizes).
WentThroughPhases == pc \in {"labeled", "projected"} /\ ~HasNoFontSizes(json0)

\* Record i was promoted by the lookahead pass: init are the labels of
\* Phase C, after is the list the pass leaves.
Promoted(init, after, i) == init[i] # "H3" /\ after[i].level = "H3"

\* The condition of the lookahead as the specification words it, h3 being
\* the threshold times 100.
PromotionAsWorded(init, h3, i) ==
    /\ init[i] = "p"
    /\ i < Len(json0)
    /\ init[i + 1] = "p"
    /\ json0[i].is_bold
    /\ json0[i].relative_font_size * 100 >= h3

\* What the lookahead pass leaves alone: every field but level, the records
\* Phase C labeled title or heading, and the last record.
LookaheadFrame(init, after) ==
    /\ Len(after) = Len(json0)
    /\ \A i \in 1..Len(json0) :
          /\ after[i] = [json0[i] EXCEPT !.level = after[i].level]
          /\ after[i].level \in {init[i], "H3"}
          /\ (init[i] \in Headings \cup {"title"} \/ i = Len(json0)) => after[i].level = init[i]

\* C17 as worded: a record is promoted to H3 exactly when Phase C labeled
\* it p and its next record p, it is bold and its rank is at least h3.
C17_AsWorded ==
    WentThroughPhases =>
        LET env == Closure(json0)
            init == Listed(initial_labels(json0, env))
            after == Listed(Lookahead(json0, env))
        IN  /\ \A i \in 1..Len(json0) :
                  Promoted(init, after, i) <=> PromotionAsWorded(init, env.thr.h3, i)
            /\ LookaheadFrame(init, after)

\* C17: a record is promoted to H3 exactly when Phase C labeled it p and
\* its next record p, it is bold, its rank is at least h3 and its rank is
\* positive; titles, headings and the last record are left alone.
C17_LookaheadRule ==
    WentThroughPhases =>
        LET env == Closure(json0)
            init == Listed(initial_labels(json0, env))
            after == Listed(Lookahead(json0, env))
        IN  /\ \A i \in 1..Len(json0) :
                  Promoted(init, after, i) <=>
                     (PromotionAsWorded(init, env.thr.h3, i) /\ json0[i].relative_font_size > 0)
            /\ LookaheadFrame(init, after)

\* C17 happens: one bold record followed by body text was promoted, and a
\* bold record of rank 0 followed by body text, h3 being 0, was not.
C17_Witness ==
    /\ WentThroughPhases
    /\ LET env == Closure(json0)
           init == Listed(initial_labels(json0, env))
           after == Listed(Lookahead(json0, env))
       IN  /\ \E i \in 1..Len(json0) : Promoted(init, after, i)
           /\ \E i \in 1..Len(json0) :
                 /\ PromotionAsWorded(init, env.thr.h3, i)
                 /\ json0[i].relative_font_size = 0
                 /\ ~Promoted(init, after, i)

\* Record obj reached the score bands: it is not the title, not forced to p
\* on the title's page, and its text is neither a bare number nor too long.
Scored(obj, env) ==
    /\ ~IsTitleObj(obj, env.title_candidate)
    /\ ~(/\ env.title_candidate # <<>>
         /\ obj.page_num = env.lowest_page_num
         /\ obj.relative_font_size < env.title_max_font_size)
    /\ ~IsPageNumberOrLong(obj.text)

\* The first of h1, h2, h3 the rank of obj meets, "none" if it meets none; a
\* threshold of 0 is never met.
FirstMet(obj, thr) ==
    IF obj.relative_font_size * 100 >= thr.h1 /\ thr.h1 > 0 THEN "H1"
    ELSE IF obj.relative_font_size * 100 >= thr.h2 /\ thr.h2 > 0 THEN "H2"
    ELSE IF obj.relative_font_size * 100 >= thr.h3 /\ thr.h3 > 0 THEN "H3"
    ELSE "none"

\* The level of a scored record as the specification words it.
LevelAsWorded(obj, thr) ==
    LET met == FirstMet(obj, thr)
    IN  IF ~ScoreAtLeast(obj, thr, 25) THEN "p"
        ELSE IF ~ScoreAtLeast(obj, thr, 45)
        THEN IF met # "none" /\ obj.is_bold THEN met ELSE "p"
        ELSE IF met # "none" THEN met
        ELSE IF ScoreAtLeast(obj, thr, 65)
        THEN IF ScoreAtLeast(obj, thr, 75) THEN "H3" ELSE "p"
        ELSE IF ScoreAtLeast(obj, thr, 55) /\ obj.is_bold THEN "H3" ELSE "p"

\* C18: Phase C gives a scored record the level of the first threshold its
\* rank meets; without one, H3 from 75 up, or from 55 up if bold, else p;
\* between 25 and 45 a level only if a threshold is met and the record is
\* bold; below 25 always p.
C18_ScoreBands ==
    WentThroughPhases =>
        LET env == Closure(json0)
            init == Listed(initial_labels(json0, env))
        IN  \A i \in 1..Len(json0) :
               Scored(json0[i], env) => init[i] = LevelAsWorded(json0[i], env.thr)

\* The score of obj lies in [lo, hi).
InBand(obj, thr, lo, hi) == ScoreAtLeast(obj, thr, lo) /\ ~ScoreAtLeast(obj, thr, hi)

\* C18 happens: a document held a scored bold record of 55 to 65 that met
\* no threshold and became H3, and a record that met h1 and became H1.
C18_Witness ==
    /\ WentThroughPhases
    /\ LET env == Closure(json0)
           init == Listed(initial_labels(json0, env))
       IN  /\ \E i \in 1..Len(json0) :
                 /\ Scored(json0[i], env) /\ InBand(json0[i], env.thr, 55, 65)
                 /\ json0[i].is_bold
                 /\ FirstMet(json0[i], env.thr) = "none" /\ init[i] = "H3"
           /\ \E i \in 1..Len(json0) :
                 /\ Scored(json0[i], env)
                 /\ FirstMet(json0[i], env.thr) = "H1" /\ init[i] = "H1"

-----------------------------------------------------------------------------
(* The pages of _extract_paragraphs_from_document grouped as independent    *)
(* tasks: each task is the body of _extract_page_paragraphs for its page,  *)
(* the tasks step in any order, and the caller joins them before ranking.  *)

\* The pages a document is made of: an empty page, one line, two lines out
\* of order that merge, two lines that split, one larger line.
ParPages ==
    { <<>>,
      <<MkLine(0, 0, 10000, FALSE, {"Arial"}, <<"t">>)>>,
      <<MkLine(0, 100, 10000, FALSE, {"Arial"}, <<"t">>),
        MkLine(0, 0, 10000, FALSE, {"Arial"}, <<"t">>)>>,
      <<MkLine(0, 0, 10000, FALSE, {"Arial"}, <<"t">>),
        MkLine(0, 250, 14000, FALSE, {"Arial"}, <<"T">>)>>,
      <<MkLine(0, 250, 14000, FALSE, {"Arial"}, <<"T">>)>> }

\* A task before it has run.
Waiting == [state |-> "waiting", paragraphs |-> <<>>, page_font_sizes |-> <<>>, finished |-> 0]

\* Number of tasks that have returned.
Finished == Cardinality({n \in 1..Len(page_paragraphs) : page_paragraphs[n].state = "done"})

InitPar ==
    /\ pc = "pages"
    /\ doc \in SeqUpTo(ParPages, MaxPages)
    /\ page_lines = [n \in 1..Len(doc) |-> <<>>]
    /\ page_paragraphs = [n \in 1..Len(doc) |-> Waiting]
    /\ page_num = 0
    /\ all_font_sizes = <<>>
    /\ paragraphs = <<>>
    /\ para_lines = <<>>
    /\ lines = <<>>
    /\ lines0 = <<>>
    /\ IdleRank
    /\ IdleLabel
    /\ IdleFile

\* The first half of _extract_page_paragraphs for page n (1-based here,
\* n - 1 in the code): the line records and font sizes of the page.
CollectPageLines(n) ==
    /\ pc = "pages"
    /\ page_paragraphs[n].state = "waiting"
    /\ LET lines_group == LinesOfPage(n - 1)
       IN  /\ page_lines' = [page_lines EXCEPT ![n] = lines_group]
           /\ page_paragraphs' =
                  [page_paragraphs EXCEPT
                      ![n].state = "collected",
                      ![n].page_font_sizes =
                          [i \in 1..Len(lines_group) |-> lines_group[i].font_size]]
    /\ UNCHANGED <<pc, doc, page_num, all_font_sizes, paragraphs, para_lines, lines, lines0,
                   RankVars, LabelVars, FileVars>>

\* The second half: group_into_paragraphs_strict on the lines of page n,
\* which sorts that list and writes line_spacing into its records.
GroupPageLines(n) ==
    /\ pc = "pages"
    /\ page_paragraphs[n].state = "collected"
    /\ page_lines' = [page_lines EXCEPT ![n] = LinesAfterGrouping(page_lines[n])]
    /\ page_paragraphs' =
           [page_paragraphs EXCEPT
               ![n].state = "done",
               ![n].paragraphs = group_into_paragraphs_strict(page_lines[n]),
               ![n].finished = Finished + 1]
    /\ UNCHANGED <<pc, doc, page_num, all_font_sizes, paragraphs, para_lines, lines, lines0,
                   RankVars, LabelVars, FileVars>>

\* A plausible slip: the results are concatenated as the tasks finished.
RECURSIVE ExtendInCompletionOrder(_, _)
ExtendInCompletionOrder(results, k) ==
    IF k > Len(results) THEN [paragraphs |-> <<>>, all_font_sizes |-> <<>>]
    ELSE LET n == CHOOSE m \in 1..Len(results) : results[m].finished = k
             rest == ExtendInCompletionOrder(results, k + 1)
         IN  [ paragraphs     |-> results[n].paragraphs \o rest.paragraphs,
               all_font_sizes |-> results[n].page_font_sizes \o rest.all_font_sizes ]

\* paragraphs.extend(page_paragraphs) and all_font_sizes.extend(page_font_sizes)
\* for the pages from k on, in page order.
RECURSIVE ExtendInPageOrder(_, _)
ExtendInPageOrder(results, k) ==
    IF k > Len(results) THEN [paragraphs |-> <<>>, all_font_sizes |-> <<>>]
    ELSE LET rest == ExtendInPageOrder(results, k + 1)
         IN  [ paragraphs     |-> results[k].paragraphs \o rest.paragraphs,
               all_font_sizes |-> results[k].page_font_sizes \o rest.all_font_sizes ]

\* The join: once every task has returned, the results are appended in
\* page order and the paragraphs ranked over the font sizes of all pages.
JoinPages ==
    /\ pc = "pages"
    /\ \A n \in 1..Len(doc) : page_paragraphs[n].state = "done"
    /\ pc' = "extracted"
    /\ LET joined == ExtendInPageOrder(page_paragraphs, 1)
       IN  /\ all_font_sizes' = joined.all_font_sizes
           /\ IF joined.all_font_sizes = <<>>
              THEN /\ paragraphs' = joined.paragraphs
                   /\ UNCHANGED font_size_ranks
              ELSE /\ font_size_ranks' = build_relative_font_ranks(joined.all_font_sizes)
                   /\ paragraphs' =
                          AssignRelativeFontSize(joined.paragraphs,
                                                 build_relative_font_ranks(joined.all_font_sizes))
    /\ UNCHANGED <<doc, page_num, para_lines, lines, lines0, font_sizes, LabelVars, FileVars,
                   ParVars>>

NextPar ==
    \/ \E n \in 1..Len(doc) : CollectPageLines(n)
    \/ \E n \in 1..Len(doc) : GroupPageLines(n)
    \/ JoinPages

SpecPar == InitPar /\ [][NextPar]_vars

\* _extract_paragraphs_from_document as written: the pages from n on (0-based)
\* taken one after the other, acc holding paragraphs and all_font_sizes.
RECURSIVE PageLoop(_, _)
PageLoop(n, acc) ==
    IF n >= Len(doc) THEN acc
    ELSE LET lines_group == LinesOfPage(n)
         IN  PageLoop(n + 1,
                [ paragraphs     |-> acc.paragraphs \o group_into_paragraphs_strict(lines_group),
                  all_font_sizes |-> acc.all_font_sizes \o
                        [i \in 1..Len(lines_group) |-> lines_group[i].font_size] ])

\* What the sequential function returns for doc.
SequentialParagraphs ==
    LET looped == PageLoop(0, [paragraphs |-> <<>>, all_font_sizes |-> <<>>])
    IN  IF looped.all_font_sizes = <<>> THEN looped.paragraphs
        ELSE AssignRelativeFontSize(looped.paragraphs,
                                    build_relative_font_ranks(looped.all_font_sizes))

\* The font sizes of every line of the document, page after page.
DocFontSizes == FlattenSeq([n \in 1..Len(doc) |-> [i \in 1..Len(doc[n]) |-> doc[n][i].font_size]])

\* A task step touches the lines and the result of one page only, and the
\* list it leaves holds that page's own lines.
PageLocal ==
    \A n \in 1..Len(doc) :
       (page_lines'[n] # page_lines[n] \/ page_paragraphs'[n] # page_paragraphs[n]) =>
          /\ \A m \in 1..Len(doc) :
                m # n => page_lines'[m] = page_lines[m] /\ page_paragraphs'[m] = page_paragraphs[m]
          /\ \A l \in Range(page_lines'[n]) : AsPassed(l) \in Range(LinesOfPage(n - 1))
          /\ Len(page_lines'[n]) = Len(doc[n])

-----------------------------------------------------------------------------
(* The repair pass applied to its own result.                              *)

\* The labels of a labeled list, in order.
LevelsOf(labeled) == [i \in 1..Len(labeled) |-> labeled[i].level]

\* C21: the repair pass is idempotent: for every label sequence s over
\* title, H1, H2, H3 and p, repairing the repaired list gives the repaired
\* list again, _ensure_logical_hierarchy(_ensure_logical_hierarchy(s)) =
\* _ensure_logical_hierarchy(s).
C21_RepairIdempotent ==
    pc \in {"labeled", "projected"} =>
        /\ labeled_data = ensure_logical_hierarchy(labeled0)
        /\ ensure_logical_hierarchy(labeled_data) = labeled_data

\* C21 happens: the first pass lifted two H3 that had nothing above them
\* (H3, H3, H2, H3 became H1, H2, H2, H3), and the second pass, with every
\* heading level to go through, changes nothing.
C21_Witness ==
    /\ pc = "labeled"
    /\ LevelsOf(labeled0) = <<"H3", "H3", "H2", "H3">>
    /\ LevelsOf(labeled_data) = <<"H1", "H2", "H2", "H3">>
    /\ ensure_logical_hierarchy(labeled_data) = labeled_data

-----------------------------------------------------------------------------
(* The paragraphs of group_into_paragraphs_strict and the merge attributes. *)

\* The lines of r agree on page_num, normalized_font_size and is_bold.
UniformRun(r) ==
    \A i, j \in 1..Len(r) :
        /\ r[i].page_num = r[j].page_num
        /\ r[i].normalized_font_size = r[j].normalized_font_size
        /\ r[i].is_bold = r[j].is_bold

\* C22: every paragraph produced by group_into_paragraphs_strict is uniform
\* in the merge attributes: all of its lines have the same page_num, the
\* same normalized_font_size and the same is_bold, so its bold_ratio is
\* exactly 0 or 1 (100 hundredths), its is_bold is true exactly when
\* bold_ratio is 1, and its page_num and normalized_font_size are those of
\* each of its lines.
C22_ParagraphUniform ==
    pc = "grouped" =>
        /\ Len(paragraphs) = Len(KeptRuns)
        /\ \A k \in 1..Len(KeptRuns) :
              LET r == KeptRuns[k]
                  para == paragraphs[k]
              IN  /\ UniformRun(r)
                  /\ para.line_count = Len(r)
                  /\ para.bold_ratio \in {0, 100}
                  /\ para.is_bold <=> para.bold_ratio = 100
                  /\ \A i \in 1..Len(r) :
                        /\ para.page_num = r[i].page_num
                        /\ para.normalized_font_size = r[i].normalized_font_size
                        /\ para.is_bold = r[i].is_bold

\* C22 happens: a light line and two bold lines below it were grouped into
\* a one-line paragraph with bold_ratio 0 and a two-line paragraph with
\* bold_ratio 1.
C22_Witness ==
    /\ pc = "grouped"
    /\ Len(paragraphs) = 2
    /\ paragraphs[1].line_count = 1 /\ paragraphs[1].bold_ratio = 0 /\ ~paragraphs[1].is_bold
    /\ paragraphs[2].line_count = 2 /\ paragraphs[2].bold_ratio = 100 /\ paragraphs[2].is_bold
    /\ UniformRun(KeptRuns[2])

\* C22, the font names: a paragraph may hold two lines, not adjacent, that
\* share no font name, each sharing one with the line between them.
FontNamesNotShared ==
    /\ pc = "grouped"
    /\ \E k \in 1..Len(KeptRuns) :
          LET r == KeptRuns[k]
          IN  /\ Len(r) = 3
              /\ paragraphs[k].line_count = 3
              /\ r[1].font_names \cap r[3].font_names = {}
              /\ UniformRun(r)

=============================================================================
